---- MODULE Spec2Model ----
(***************************************************************************)
(* tap-netsuite-rest: pagination, incremental filter, index -> detail      *)
(* expansion and custom-field folding of the NetSuite REST tap.            *)
(*                                                                         *)
(* Python values are encoded as follows.                                   *)
(*   None / a value x        : <<>> / <<x>>                                *)
(*   str used as a dict key  : sequence of one-character strings           *)
(*   dict (insertion order)  : sequence of [k |-> key, v |-> value]        *)
(*   str value / list value  : Str(s) / List(l)                            *)
(*   JSON body               : a record (DOMAIN = the keys it carries)     *)
(*   query-parameter dict    : function from a set of parameter names      *)
(***************************************************************************)
EXTENDS Integers, Sequences, FiniteSets, TLC

VARIABLES
    \* ---- the function harness (SpecPaginator, SpecPostProcess)
    fn,          \* which function was applied last ("input" before any)
    fnStream,    \* the stream class the method is called on
    fnCursor,    \* what get_starting_timestamp returns: None or a date
    fnBody,      \* the list response body handed to get_next_page_token
    fnPrev,      \* previous_token handed to get_next_page_token
    fnToken,     \* the outcome of get_next_page_token
    fnParams,    \* the outcome of get_url_params
    fnRow,       \* the raw row handed to post_process
    fnOnce,      \* post_process(row)
    fnTwice,     \* post_process(post_process(row))
    fnStatus,    \* response.status_code handed to validate_response
    fnExtra,     \* extra_retry_statuses of the stream
    fnVerdict,   \* what validate_response did: "ok" or the exception
    \* ---- one fetch cycle of a stream (Spec)
    stream,      \* the list stream class being synced
    cursor,      \* get_starting_timestamp of the run: None or a date
    vetoIds,     \* ids whose record the sub-stream's post_process filters out
    numRecords,  \* how many records the server holds for the query
    pc,          \* Start, FetchingPage, Expanding, DetailRequest, Yielded,
                 \* Consumed, Advanced, Done, Failed
    token,       \* the list paginator's current page token
    page,        \* JSON body of the list response being expanded
    pageStatus,  \* HTTP status of that response (0 before any)
    idx,         \* how many items of the page have been expanded
    tries,       \* failed attempts of the request in flight
    subToken,    \* the sub-stream paginator's current page token
    yielded,     \* ids of the IndexRecords yielded so far, in order
    listLog,     \* the query of every list request prepared
    detailLog,   \* every detail request prepared: id, path, query
    accepted,    \* every detail response that passed validate_response
    emitted,     \* the records yielded by get_records, in order
    error,       \* the exception that ended the cycle ("" if none)
    lastStatus,  \* HTTP status of the latest response (0 before any)
    pageLog,     \* the body of every list response that was accepted
    bookmark,    \* the stream state's replication-key value: None or the
                 \* latest lastModifiedDate among the records emitted
    \* ---- the authenticator shared by the stream instances (SpecAuth)
    single_instance, \* SingletonMeta's instance: None or its index in auths
    authOf,      \* per stream instance, its cached authenticator (or None)
    auths,       \* the authenticator objects: access_token, expires_in,
                 \* last_refreshed
    now,         \* utc_now()
    authPc,      \* Idle, Ready, Exchanging, Aborted
    authCaller,  \* the stream instance whose request waits for the token
    request_time, \* utc_now() taken when the exchange in flight began
    exchangeLog, \* every POST to the token endpoint and what came of it
    sentLog,     \* every API request sent: by whom, with which token
    authError,   \* the exception that ended the run ("" if none)
    updating,    \* the stream instances that found no valid token and have
                 \* not yet begun their exchange
    \* ---- one run of the tap over its streams (SpecRun)
    runPc,       \* Idle, Running, Finished, Aborted
    runIdx,      \* position in discover_streams of the stream being synced
    synced       \* the streams whose fetch cycle has run to its end

fnVars == <<fn, fnStream, fnCursor, fnBody, fnPrev, fnToken, fnParams,
            fnRow, fnOnce, fnTwice, fnStatus, fnExtra, fnVerdict>>

cycleVars == <<stream, cursor, vetoIds, numRecords, pc, token, page,
               pageStatus, idx, tries, subToken, yielded, listLog, detailLog,
               accepted, emitted, error, lastStatus, pageLog, bookmark>>

authVars == <<single_instance, authOf, auths, now, authPc, authCaller,
              request_time, exchangeLog, sentLog, authError, updating>>

runVars == <<runPc, runIdx, synced>>

vars == <<fn, fnStream, fnCursor, fnBody, fnPrev, fnToken, fnParams,
          fnRow, fnOnce, fnTwice, fnStatus, fnExtra, fnVerdict,
          stream, cursor, vetoIds, numRecords, pc, token, page,
          pageStatus, idx, tries, subToken, yielded, listLog, detailLog,
          accepted, emitted, error, lastStatus, pageLog, bookmark,
          single_instance, authOf, auths, now, authPc, authCaller,
          request_time, exchangeLog, sentLog, authError, updating,
          runPc, runIdx, synced>>

-----------------------------------------------------------------------------
(* Bounds of the model *)

MaxOffset == 3
MaxCount == 2
MaxFields == 3
MaxRecords == 3
MaxTries == 2
MaxInstances == 3
MaxClock == 3
MaxRequests == 3
MaxExpiresIn == 2
MaxThreads == 2

-----------------------------------------------------------------------------
(* Python values *)

None == <<>>
Some(x) == <<x>>
IsNone(o) == o = <<>>
Val(o) == o[1]

Str(s) == [t |-> "str", s |-> s]
Num(n) == [t |-> "num", n |-> n]
List(l) == [t |-> "list", l |-> l]
\* a JSON string holding the timestamp d
Timestamp(d) == [t |-> "timestamp", d |-> d]

\* str.startswith on character sequences
StartsWith(s, p) ==
    /\ Len(p) <= Len(s)
    /\ \A i \in 1..Len(p) : s[i] = p[i]

HasKey(row, key) == \E i \in 1..Len(row) : row[i].k = key

\* row[key]
DictGet(row, key) == row[CHOOSE i \in 1..Len(row) : row[i].k = key].v

\* row[key] = value: an existing key keeps its position, a new key is appended
DictSet(row, key, value) ==
    IF HasKey(row, key)
    THEN [i \in 1..Len(row) |->
            IF row[i].k = key THEN [k |-> key, v |-> value] ELSE row[i]]
    ELSE Append(row, [k |-> key, v |-> value])

RECURSIVE SelectIdx(_, _, _)
\* the indexes i of row, ascending from i, whose key starts with p
SelectIdx(row, p, i) ==
    IF i > Len(row) THEN <<>>
    ELSE IF StartsWith(row[i].k, p)
         THEN <<i>> \o SelectIdx(row, p, i + 1)
         ELSE SelectIdx(row, p, i + 1)

-----------------------------------------------------------------------------
(* Field names and stream classes *)

K_id == <<"i", "d">>
K_displayName == <<"d", "i", "s", "p", "l", "a", "y", "N", "a", "m", "e">>
K_custentity == <<"c", "u", "s", "t", "e", "n", "t", "i", "t", "y">>
K_custitem == <<"c", "u", "s", "t", "i", "t", "e", "m">>
K_custbody == <<"c", "u", "s", "t", "b", "o", "d", "y">>
K_foo == <<"_", "f", "o", "o">>
K_title == <<"t", "i", "t", "l", "e">>
K_status == <<"s", "t", "a", "t", "u", "s">>
K_lastModifiedDate ==
    <<"l", "a", "s", "t", "M", "o", "d", "i", "f", "i", "e", "d", "D", "a",
      "t", "e">>

\* custom_attribute_prefix of the sub-stream of each stream class; the base
\* classes leave it None
custom_attribute_prefix(s) ==
    CASE s = "customers" -> K_custentity
      [] s = "inventory_items" -> K_custitem
      [] s = "purchase_orders" -> K_custbody
      [] s = "sales_orders" -> K_custbody
      [] OTHER -> None

\* replication_key of each list stream class; None on the base class
replication_key(s) ==
    CASE s \in {"customers", "inventory_items", "purchase_orders",
                "sales_orders"} -> Some("lastModifiedDate")
      [] OTHER -> None

StreamClasses ==
    {"base", "customers", "inventory_items", "purchase_orders", "sales_orders"}

-----------------------------------------------------------------------------
(* Paginator: NetsuiteRESTBaseStream.get_next_page_token / get_url_params *)

\* variant: the token is computed without looking at hasMore
get_next_page_token_ignoring_hasMore(body, previous_token) ==
    IF "hasMore" \notin DOMAIN body
    THEN [err |-> "KeyError", token |-> None]
    ELSE [err |-> "", token |-> Some(body.offset + body.count)]

\* variant: the next offset is counted on from the previous token
get_next_page_token_from_previous(body, previous_token) ==
    IF "hasMore" \notin DOMAIN body
    THEN [err |-> "KeyError", token |-> None]
    ELSE IF body.hasMore
         THEN [err |-> "",
               token |-> Some((IF IsNone(previous_token) THEN 0
                               ELSE Val(previous_token)) + body.count)]
         ELSE [err |-> "", token |-> None]

\* get_next_page_token(response, previous_token); response_json['hasMore']
\* raises KeyError on a body without that key
get_next_page_token(body, previous_token) ==
    IF "hasMore" \notin DOMAIN body
    THEN [err |-> "KeyError", token |-> None]
    ELSE IF body.hasMore
         THEN [err |-> "", token |-> Some(body.offset + body.count)]
         ELSE [err |-> "", token |-> None]

DigitChar(n) ==
    CASE n = 0 -> "0" [] n = 1 -> "1" [] n = 2 -> "2" [] n = 3 -> "3"
      [] n = 4 -> "4" [] n = 5 -> "5" [] n = 6 -> "6" [] n = 7 -> "7"
      [] n = 8 -> "8" [] n = 9 -> "9"

\* variant: month first ("%m/%d/%Y")
strftime_month_first(d) ==
    << DigitChar(d.month \div 10), DigitChar(d.month % 10), "/",
       DigitChar(d.day \div 10), DigitChar(d.day % 10), "/",
       DigitChar(d.year \div 1000), DigitChar((d.year \div 100) % 10),
       DigitChar((d.year \div 10) % 10), DigitChar(d.year % 10) >>

\* start_date.strftime("%d/%m/%Y"): zero-padded day and month, 4-digit year
strftime(d) ==
    << DigitChar(d.day \div 10), DigitChar(d.day % 10), "/",
       DigitChar(d.month \div 10), DigitChar(d.month % 10), "/",
       DigitChar(d.year \div 1000), DigitChar((d.year \div 100) % 10),
       DigitChar((d.year \div 10) % 10), DigitChar(d.year % 10) >>

\* variant: "is not None" in place of truthiness
TokenNotNone(tok) == ~IsNone(tok)

\* Python truthiness of a page token: None and 0 are falsy
TokenTruthy(tok) == ~IsNone(tok) /\ Val(tok) # 0

page_limit == 1000

\* variant: the page token is never put into the query
get_url_params_no_offset(s, start, next_page_token) ==
    IF ~IsNone(replication_key(s)) /\ IsNone(start)
    THEN [err |-> "AttributeError", params |-> <<>>]
    ELSE [err |-> "",
          params |->
            IF ~IsNone(replication_key(s))
            THEN ("limit" :> 1000)
                 @@ ("q" :> (<<Val(replication_key(s)), " AFTER ", "\"">>
                              \o strftime(Val(start)) \o <<"\"">>))
            ELSE ("limit" :> 1000)]

\* variant: the filter is put on the first page's query only
get_url_params_filter_once(s, start, next_page_token) ==
    IF ~IsNone(replication_key(s)) /\ IsNone(start)
    THEN [err |-> "AttributeError", params |-> <<>>]
    ELSE [err |-> "",
          params |->
            IF TokenTruthy(next_page_token)
            THEN ("limit" :> 1000) @@ ("offset" :> Val(next_page_token))
            ELSE IF ~IsNone(replication_key(s))
                 THEN ("limit" :> 1000)
                      @@ ("q" :> (<<Val(replication_key(s)), " AFTER ",
                                    "\"">>
                                  \o strftime(Val(start)) \o <<"\"">>))
                 ELSE ("limit" :> 1000)]

\* get_url_params(context, next_page_token) of a list stream; start is what
\* get_starting_timestamp(context) returns.  None.strftime raises
\* AttributeError.
get_url_params(s, start, next_page_token) ==
    LET base == ("limit" :> page_limit)
        withQ ==
            IF ~IsNone(replication_key(s))
            THEN base @@ ("q" :> (<<Val(replication_key(s)), " AFTER ", "\"">>
                                   \o strftime(Val(start)) \o <<"\"">>))
            ELSE base
        withOffset ==
            IF TokenTruthy(next_page_token)
            THEN withQ @@ ("offset" :> Val(next_page_token))
            ELSE withQ
    IN IF ~IsNone(replication_key(s)) /\ IsNone(start)
       THEN [err |-> "AttributeError", params |-> <<>>]
       ELSE [err |-> "", params |-> withOffset]

-----------------------------------------------------------------------------
(* Detail Expander: NetsuiteStream.post_process *)

\* variant: the comprehension without its startswith filter
post_process_unfiltered(p, row) ==
    IF p # None
    THEN DictSet(row, p, List([j \in 1..Len(row) |-> <<row[j]>>]))
    ELSE row

\* variant: the prefixed fields are moved into the bucket
post_process_moving(p, row) ==
    IF p # None
    THEN LET sel == SelectIdx(row, p, 1)
             bucket == [j \in 1..Len(sel) |-> <<row[sel[j]]>>]
             rest == SelectSeq(row, LAMBDA f : ~StartsWith(f.k, p))
         IN DictSet(rest, p, List(bucket))
    ELSE row

\* post_process(row, context) on a stream whose custom_attribute_prefix is p
post_process(p, row) ==
    IF p # None
    THEN LET sel == SelectIdx(row, p, 1)
             bucket == [j \in 1..Len(sel) |-> <<row[sel[j]]>>]
         IN DictSet(row, p, List(bucket))
    ELSE row

-----------------------------------------------------------------------------
(* Inputs of the function harness *)

Dates ==
    [year : {1999, 2024}, month : {1, 12}, day : {1, 9, 10, 31}]

ListBodies ==
    [items : {<<>>}, hasMore : BOOLEAN, offset : 0..MaxOffset,
     count : 0..MaxCount]

\* the JSON body of an error response: no items, no hasMore
ErrorBody == [title |-> "Bad Request", status |-> 400]

FieldNames ==
    {K_id, K_displayName, K_custitem, K_custitem \o K_foo,
     K_custentity \o K_foo, K_custbody, K_custbody \o K_foo}

FieldValues == {Str("5"), Str("bar"), Str("Widget")}

\* raw JSON objects: at most MaxFields fields, keys unique
RawRows ==
    UNION {
        {r \in [1..n -> [k : FieldNames, v : FieldValues]] :
            \A i, j \in 1..n : i # j => r[i].k # r[j].k}
        : n \in 0..MaxFields}

FnIdle ==
    /\ fnStream = "base" /\ fnCursor = None /\ fnBody = ErrorBody
    /\ fnPrev = None /\ fnToken = [err |-> "", token |-> None]
    /\ fnParams = [err |-> "", params |-> <<>>]
    /\ fnRow = <<>> /\ fnOnce = <<>> /\ fnTwice = <<>>
    /\ fnStatus = 0 /\ fnExtra = {} /\ fnVerdict = ""

CycleIdle ==
    /\ stream = "customers" /\ cursor = None /\ vetoIds = {}
    /\ numRecords = 0 /\ pc = "Idle" /\ token = None /\ page = ErrorBody
    /\ pageStatus = 0 /\ idx = 0 /\ tries = 0 /\ subToken = None
    /\ yielded = <<>> /\ listLog = <<>> /\ detailLog = <<>>
    /\ accepted = <<>> /\ emitted = <<>> /\ error = ""
    /\ lastStatus = 0 /\ pageLog = <<>> /\ bookmark = None

\* the stream instances that ask the authenticator for headers: list
\* streams and the sub-stream instances get_records creates per record
StreamInstances == 1..MaxInstances

AuthIdle ==
    /\ single_instance = None
    /\ authOf = [i \in StreamInstances |-> None]
    /\ auths = <<>> /\ now = 0 /\ authPc = "Idle" /\ authCaller = 0
    /\ request_time = 0 /\ exchangeLog = <<>> /\ sentLog = <<>>
    /\ authError = "" /\ updating = {}

RunIdle == runPc = "Idle" /\ runIdx = 0 /\ synced = <<>>

-----------------------------------------------------------------------------
(* SpecPaginator: get_next_page_token and get_url_params on drawn inputs *)

InitPaginator ==
    /\ fn = "input"
    /\ fnStream \in StreamClasses
    /\ fnCursor \in {None} \cup {Some(d) : d \in Dates}
    /\ fnBody \in ListBodies \cup {ErrorBody}
    /\ fnPrev \in {None} \cup {Some(n) : n \in 0..MaxOffset}
    /\ fnToken = [err |-> "", token |-> None]
    /\ fnParams = [err |-> "", params |-> <<>>]
    /\ fnRow = <<>> /\ fnOnce = <<>> /\ fnTwice = <<>>
    /\ fnStatus = 0 /\ fnExtra = {} /\ fnVerdict = ""
    /\ CycleIdle /\ AuthIdle /\ RunIdle

\* the paginator asks for the next token of the response
CallGetNextPageToken ==
    /\ fn = "input"
    /\ fnToken' = get_next_page_token(fnBody, fnPrev)
    /\ fn' = "get_next_page_token"
    /\ UNCHANGED <<fnStream, fnCursor, fnBody, fnPrev, fnParams, fnRow,
                   fnOnce, fnTwice>>
    /\ UNCHANGED <<fnStatus, fnExtra, fnVerdict>>
    /\ UNCHANGED <<cycleVars, authVars, runVars>>

\* the query of the request that carries the returned token
CallGetUrlParams ==
    /\ fn = "get_next_page_token"
    /\ fnToken.err = ""
    /\ fnParams' = get_url_params(fnStream, fnCursor, fnToken.token)
    /\ fn' = "get_url_params"
    /\ UNCHANGED <<fnStream, fnCursor, fnBody, fnPrev, fnToken, fnRow,
                   fnOnce, fnTwice>>
    /\ UNCHANGED <<fnStatus, fnExtra, fnVerdict>>
    /\ UNCHANGED <<cycleVars, authVars, runVars>>

NextPaginator == CallGetNextPageToken \/ CallGetUrlParams

SpecPaginator == InitPaginator /\ [][NextPaginator]_vars

-----------------------------------------------------------------------------
(* SpecPostProcess: post_process applied once and twice on drawn rows *)

InitPostProcess ==
    /\ fn = "input"
    /\ fnStream \in StreamClasses
    /\ fnRow \in RawRows
    /\ fnCursor = None /\ fnBody = ErrorBody /\ fnPrev = None
    /\ fnToken = [err |-> "", token |-> None]
    /\ fnParams = [err |-> "", params |-> <<>>]
    /\ fnOnce = <<>> /\ fnTwice = <<>>
    /\ fnStatus = 0 /\ fnExtra = {} /\ fnVerdict = ""
    /\ CycleIdle /\ AuthIdle /\ RunIdle

CallPostProcess ==
    /\ fn = "input"
    /\ fnOnce' = post_process(custom_attribute_prefix(fnStream), fnRow)
    /\ fn' = "post_process"
    /\ UNCHANGED <<fnStream, fnCursor, fnBody, fnPrev, fnToken, fnParams,
                   fnRow, fnTwice>>
    /\ UNCHANGED <<fnStatus, fnExtra, fnVerdict>>
    /\ UNCHANGED <<cycleVars, authVars, runVars>>

CallPostProcessAgain ==
    /\ fn = "post_process"
    /\ fnTwice' = post_process(custom_attribute_prefix(fnStream), fnOnce)
    /\ fn' = "post_process_again"
    /\ UNCHANGED <<fnStream, fnCursor, fnBody, fnPrev, fnToken, fnParams,
                   fnRow, fnOnce>>
    /\ UNCHANGED <<fnStatus, fnExtra, fnVerdict>>
    /\ UNCHANGED <<cycleVars, authVars, runVars>>

NextPostProcess == CallPostProcess \/ CallPostProcessAgain

SpecPostProcess == InitPostProcess /\ [][NextPostProcess]_vars

-----------------------------------------------------------------------------
(* Response validation and the detail sub-stream: NetsuiteStream *)

\* RESTStream.extra_retry_statuses as the stream classes inherit it
extra_retry_statuses == {429}

\* variant: every status from 400 up to 499 is fatal, 5xx not looked at
validate_response_5xx_unchecked(status, extra) ==
    IF status = 400 THEN "ok"
    ELSE IF status \in extra THEN "RetriableAPIError"
         ELSE IF 400 <= status /\ status < 500
              THEN "FatalAPIError"
              ELSE "ok"

\* variant: the fatal range tested before the retriable statuses
validate_response_fatal_first(status, extra) ==
    IF status = 400 THEN "ok"
    ELSE IF 400 <= status /\ status < 500
         THEN "FatalAPIError"
         ELSE IF status \in extra \/ (500 <= status /\ status <= 511)
              THEN "RetriableAPIError"
              ELSE "ok"

\* variant: 404 taken for "not found" like 400
validate_response_404_empty(status, extra) ==
    IF status = 400 \/ status = 404 THEN "ok"
    ELSE IF status \in extra \/ (500 <= status /\ status <= 511)
         THEN "RetriableAPIError"
         ELSE IF 400 <= status /\ status < 500
              THEN "FatalAPIError"
              ELSE "ok"

\* variant: 401 taken for an expired token and retried
validate_response_401_retried(status, extra) ==
    IF status = 400 THEN "ok"
    ELSE IF status \in extra \/ status = 401
            \/ (500 <= status /\ status <= 511)
         THEN "RetriableAPIError"
         ELSE IF 400 <= status /\ status < 500
              THEN "FatalAPIError"
              ELSE "ok"

\* validate_response(response): "ok" when it returns, else the exception
validate_response(status, extra) ==
    IF status = 400 THEN "ok"
    ELSE IF status \in extra \/ (500 <= status /\ status <= 511)
         THEN "RetriableAPIError"
         ELSE IF 400 <= status /\ status < 500
              THEN "FatalAPIError"
              ELSE "ok"

\* the statuses and the extra_retry_statuses validate_response is tried on
ValidateStatuses ==
    {200, 201, 204, 301, 399, 400, 401, 403, 404, 422, 429, 499, 500, 502,
     503, 511, 512, 599}

ValidateExtras == SUBSET {204, 400, 404, 429}

\* NetsuiteStream.get_url_params, the one the detail sub-streams run: {}
sub_get_url_params(next_page_token) == <<>>

\* variant: a second page after the first
sub_get_next_page_token_paging(row, previous_token) ==
    IF IsNone(previous_token) THEN Some(1) ELSE None

\* NetsuiteStream.get_next_page_token, the one the detail sub-streams run
sub_get_next_page_token(row, previous_token) == None

\* path of the detail sub-stream with {id} filled in from the context
sub_path(s, id) ==
    CASE s = "customers" -> <<"/customer/", id>>
      [] s = "inventory_items" -> <<"/inventoryItem/", id>>
      [] s = "purchase_orders" -> <<"/purchaseOrder/", id>>
      [] s = "sales_orders" -> <<"/salesOrder/", id>>

\* variant: the page's records taken last first
next_record_reversed(items, done) == items[Len(items) - done]

\* "for record in self.request_records(context)": the record after the
\* first done ones, in the order of the page
next_record(items, done) == items[done + 1]

\* records_jsonpath "$.items[*]" of the list streams applied to a body
Items(body) == IF "items" \in DOMAIN body THEN body.items ELSE <<>>

\* the sub-stream's post_process as get_records calls it.  The shipped
\* sub-streams return the folded row; veto is the set of ids for which an
\* overriding post_process returns None.
substream_post_process(s, row, id, veto) ==
    IF id \in veto THEN None
    ELSE Some(post_process(custom_attribute_prefix(s), row))

\* variant: a filtered record is yielded all the same
yield_transformed_unchecked(out, transformed_record) ==
    Append(out, IF transformed_record = None THEN <<>>
                ELSE Val(transformed_record))

\* get_records: "if transformed_record is None: continue", else yield
yield_transformed(out, transformed_record) ==
    IF transformed_record = None THEN out
    ELSE Append(out, Val(transformed_record))

-----------------------------------------------------------------------------
(* SpecValidate: validate_response on drawn statuses *)

InitValidate ==
    /\ fn = "status"
    /\ fnStatus \in ValidateStatuses
    /\ fnExtra \in ValidateExtras
    /\ fnVerdict = ""
    /\ fnStream = "base" /\ fnCursor = None /\ fnBody = ErrorBody
    /\ fnPrev = None /\ fnToken = [err |-> "", token |-> None]
    /\ fnParams = [err |-> "", params |-> <<>>]
    /\ fnRow = <<>> /\ fnOnce = <<>> /\ fnTwice = <<>>
    /\ CycleIdle /\ AuthIdle /\ RunIdle

CallValidateResponse ==
    /\ fn = "status"
    /\ fnVerdict' = validate_response(fnStatus, fnExtra)
    /\ fn' = "validate_response"
    /\ UNCHANGED <<fnStream, fnCursor, fnBody, fnPrev, fnToken, fnParams,
                   fnRow, fnOnce, fnTwice, fnStatus, fnExtra>>
    /\ UNCHANGED <<cycleVars, authVars, runVars>>

NextValidate == CallValidateResponse

SpecValidate == InitValidate /\ [][NextValidate]_vars

-----------------------------------------------------------------------------
(* The server *)

IdAt(i) == DigitChar(i)

Min(a, b) == IF a < b THEN a ELSE b

\* the list bodies the server may answer with for offset o: the next c
\* records, 1 <= c <= MaxCount while records remain
ServerPages(o, n) ==
    {[items |-> [i \in 1..c |-> [id |-> IdAt(o + i)]],
      hasMore |-> o + c < n, offset |-> o, count |-> c] :
        c \in IF o < n THEN 1..Min(MaxCount, n - o) ELSE {0}}

\* the lastModifiedDate the server holds for record id: after the cursor
\* of the run, later for a later record
RecordDate(id) ==
    [year |-> 2024, month |-> 12,
     day |-> 9 + (CHOOSE i \in 1..9 : IdAt(i) = id)]

\* the detail body of record id
DetailRow(s, id) ==
    << [k |-> K_id, v |-> Str(id)],
       [k |-> custom_attribute_prefix(s) \o K_foo, v |-> Str("bar")],
       [k |-> K_displayName, v |-> Str("Widget")],
       [k |-> K_lastModifiedDate, v |-> Timestamp(RecordDate(id))] >>

\* d is later than e
DateLater(d, e) ==
    \/ d.year > e.year
    \/ d.year = e.year /\ d.month > e.month
    \/ d.year = e.year /\ d.month = e.month /\ d.day > e.day

\* the stream's starting replication value: what was read when the sync
\* began, whatever has been written to the state since
get_starting_timestamp(start, mark) == start

\* the state's replication-key value after a record has been yielded: a
\* record that carries a later value of the replication key advances it
increment_stream_state(mark, rk, transformed_record) ==
    IF IsNone(transformed_record) \/ IsNone(rk) THEN mark
    ELSE LET rec == Val(transformed_record) IN
         IF ~HasKey(rec, K_lastModifiedDate) THEN mark
         ELSE LET d == DictGet(rec, K_lastModifiedDate).d IN
              IF IsNone(mark) \/ DateLater(d, Val(mark))
              THEN Some(d) ELSE mark

\* an error body as the detail sub-stream's "$" yields it
ErrorRow(status) ==
    << [k |-> K_title, v |-> Str("Bad Request")],
       [k |-> K_status, v |-> Num(status)] >>

ServerStatuses == {200, 400, 401, 429, 500}

RunStreams ==
    {"customers", "inventory_items", "purchase_orders", "sales_orders"}

CycleDates == {[year |-> 2024, month |-> 12, day |-> 9]}

-----------------------------------------------------------------------------
(* Spec: one fetch cycle, NetsuiteRESTBaseStream.get_records *)

\* a fetch cycle of list stream class s about to start
InitCycle(s) ==
    /\ stream = s
    /\ cursor \in {None} \cup {Some(d) : d \in CycleDates}
    /\ numRecords \in 0..MaxRecords
    /\ vetoIds \in {{}} \cup {{IdAt(i)} : i \in 1..numRecords}
    /\ pc = "Start" /\ token = None /\ page = ErrorBody /\ pageStatus = 0
    /\ idx = 0 /\ tries = 0 /\ subToken = None
    /\ yielded = <<>> /\ listLog = <<>> /\ detailLog = <<>>
    /\ accepted = <<>> /\ emitted = <<>> /\ error = ""
    /\ lastStatus = 0 /\ pageLog = <<>> /\ bookmark = None

Init ==
    /\ \E s \in RunStreams : InitCycle(s)
    /\ fn = "idle" /\ FnIdle /\ AuthIdle /\ RunIdle

\* variant: the exception is noted and the loop goes on
Raise_swallowed(e) == pc' = pc /\ error' = e

\* an exception leaves get_records
Raise(e) == pc' = "Failed" /\ error' = e

\* offset the list request in flight asks for
RequestOffset ==
    LET q == listLog[Len(listLog)]
    IN IF "offset" \in DOMAIN q THEN q["offset"] ELSE 0

\* request_records of the list stream prepares the request of the next page
PrepareListRequest ==
    /\ pc \in {"Start", "Advanced"}
    /\ LET r == get_url_params(stream,
                               get_starting_timestamp(cursor, bookmark),
                               token) IN
       IF r.err # ""
       THEN Raise(r.err) /\ UNCHANGED <<listLog, tries>>
       ELSE /\ listLog' = Append(listLog, r.params)
            /\ tries' = 0
            /\ pc' = "FetchingPage"
            /\ error' = error
    /\ UNCHANGED <<stream, cursor, vetoIds, numRecords, token, page,
                   pageStatus, idx, subToken, yielded, detailLog, accepted,
                   emitted, lastStatus, pageLog, bookmark>>
    /\ UNCHANGED <<fnVars, authVars, runVars>>

\* the server answers the list request; the response is validated
ListResponse(status) ==
    /\ pc = "FetchingPage"
    /\ LET v == validate_response(status, extra_retry_statuses) IN
       CASE v = "ok" ->
              /\ \E body \in IF status = 200
                             THEN ServerPages(RequestOffset, numRecords)
                             ELSE {ErrorBody} :
                    page' = body /\ pageLog' = Append(pageLog, body)
              /\ pageStatus' = status
              /\ idx' = 0
              /\ pc' = "Expanding"
              /\ UNCHANGED <<tries, error>>
         [] v = "RetriableAPIError" ->
              /\ IF tries + 1 >= MaxTries
                 THEN Raise(v) /\ tries' = tries
                 ELSE tries' = tries + 1 /\ UNCHANGED <<pc, error>>
              /\ UNCHANGED <<page, pageStatus, idx, pageLog>>
         [] v = "FatalAPIError" ->
              /\ Raise(v)
              /\ UNCHANGED <<page, pageStatus, idx, tries, pageLog>>
    /\ lastStatus' = status
    /\ UNCHANGED <<stream, cursor, vetoIds, numRecords, token, subToken,
                   yielded, listLog, detailLog, accepted, emitted,
                   bookmark>>
    /\ UNCHANGED <<fnVars, authVars, runVars>>

\* get_records takes the next IndexRecord of the page, puts its id in the
\* context and the sub-stream prepares its detail request
ExpandNext ==
    /\ pc = "Expanding"
    /\ idx < Len(Items(page))
    /\ LET record == next_record(Items(page), idx) IN
       /\ yielded' = Append(yielded, record.id)
       /\ detailLog' = Append(detailLog,
                              [id |-> record.id,
                               path |-> sub_path(stream, record.id),
                               params |-> sub_get_url_params(None)])
    /\ subToken' = None
    /\ tries' = 0
    /\ pc' = "DetailRequest"
    /\ UNCHANGED <<stream, cursor, vetoIds, numRecords, token, page,
                   pageStatus, idx, listLog, accepted, emitted, error,
                   lastStatus, pageLog, bookmark>>
    /\ UNCHANGED <<fnVars, authVars, runVars>>

\* the sub-stream's request_records resumes after its record: its paginator
\* advances on the detail response, and either a further detail request is
\* prepared or the list stream's next record is due
ResumeSubStream(id, row) ==
    LET nxt == sub_get_next_page_token(row, subToken) IN
    IF TokenTruthy(nxt)
    THEN /\ subToken' = nxt
         /\ detailLog' = Append(detailLog,
                                [id |-> id,
                                 path |-> sub_path(stream, id),
                                 params |-> sub_get_url_params(nxt)])
         /\ pc' = "DetailRequest"
         /\ UNCHANGED idx
    ELSE /\ idx' = idx + 1
         /\ pc' = "Expanding"
         /\ UNCHANGED <<subToken, detailLog>>

\* the server answers the detail request; the response is validated and its
\* body post-processed.  A record is yielded to the consumer, and get_records
\* is suspended at the yield; a filtered record is skipped and the
\* sub-stream's request_records resumes at once
DetailResponse(status) ==
    /\ pc = "DetailRequest"
    /\ LET v == validate_response(status, extra_retry_statuses)
           id == yielded[Len(yielded)]
           row == IF status = 200 THEN DetailRow(stream, id)
                  ELSE ErrorRow(status)
           transformed_record ==
               substream_post_process(stream, row, id, vetoIds)
       IN
       CASE v = "ok" ->
              /\ accepted' = Append(accepted,
                                    [id |-> id, status |-> status,
                                     row |-> row, attempts |-> tries + 1])
              /\ emitted' = yield_transformed(emitted, transformed_record)
              /\ IF IsNone(transformed_record)
                 THEN ResumeSubStream(id, row)
                 ELSE /\ pc' = "Yielded"
                      /\ UNCHANGED <<idx, subToken, detailLog>>
              /\ tries' = 0
              /\ error' = error
         [] v = "RetriableAPIError" ->
              /\ IF tries + 1 >= MaxTries
                 THEN Raise(v) /\ tries' = tries
                 ELSE tries' = tries + 1 /\ UNCHANGED <<pc, error>>
              /\ UNCHANGED <<accepted, emitted, subToken, detailLog, idx>>
         [] v = "FatalAPIError" ->
              /\ Raise(v)
              /\ UNCHANGED <<accepted, emitted, subToken, detailLog, idx,
                             tries>>
    /\ lastStatus' = status
    /\ UNCHANGED <<stream, cursor, vetoIds, numRecords, token, page,
                   pageStatus, yielded, listLog, pageLog, bookmark>>
    /\ UNCHANGED <<fnVars, authVars, runVars>>

\* the consumer of get_records has the yielded record: the record is
\* written out and the stream's state advanced
ConsumeRecord ==
    /\ pc = "Yielded"
    /\ bookmark' = increment_stream_state(bookmark, replication_key(stream),
                                          Some(emitted[Len(emitted)]))
    /\ pc' = "Consumed"
    /\ UNCHANGED <<stream, cursor, vetoIds, numRecords, token, page,
                   pageStatus, idx, tries, subToken, yielded, listLog,
                   detailLog, accepted, emitted, error, lastStatus, pageLog>>
    /\ UNCHANGED <<fnVars, authVars, runVars>>

\* the consumer asks for the next record: get_records resumes after its
\* yield, and with it the sub-stream's request_records
ResumeAfterYield ==
    /\ pc = "Consumed"
    /\ ResumeSubStream(accepted[Len(accepted)].id,
                       accepted[Len(accepted)].row)
    /\ UNCHANGED <<stream, cursor, vetoIds, numRecords, token, page,
                   pageStatus, tries, yielded, listLog, accepted, emitted,
                   error, lastStatus, pageLog, bookmark>>
    /\ UNCHANGED <<fnVars, authVars, runVars>>

\* all items of the page are expanded: the list paginator advances on the
\* response and finishes on a falsy token.  On a response that carried no
\* record the request loop of the installed SDK either does the same or
\* ends the pagination without asking get_next_page_token
Advance ==
    /\ pc = "Expanding"
    /\ idx = Len(Items(page))
    /\ \/ /\ Len(Items(page)) = 0
          /\ pc' = "Done"
          /\ UNCHANGED <<token, error>>
       \/ LET r == get_next_page_token(page, token) IN
          IF r.err # ""
          THEN Raise(r.err) /\ token' = token
          ELSE IF TokenTruthy(r.token)
               THEN IF r.token = token
                    THEN Raise("RuntimeError") /\ token' = token
                    ELSE /\ token' = r.token /\ pc' = "Advanced"
                         /\ error' = error
               ELSE token' = token /\ pc' = "Done" /\ error' = error
    /\ UNCHANGED <<stream, cursor, vetoIds, numRecords, page, pageStatus,
                   idx, tries, subToken, yielded, listLog, detailLog,
                   accepted, emitted, lastStatus, pageLog, bookmark>>
    /\ UNCHANGED <<fnVars, authVars, runVars>>

Next ==
    \/ PrepareListRequest
    \/ \E status \in ServerStatuses : ListResponse(status)
    \/ ExpandNext
    \/ \E status \in ServerStatuses : DetailResponse(status)
    \/ ConsumeRecord
    \/ ResumeAfterYield
    \/ Advance

Spec == Init /\ [][Next]_vars

\* the cycle keeps taking its next step: get_records is driven to
\* exhaustion and every request is answered
LiveSpec == Init /\ [][Next]_vars /\ WF_vars(Next)

\* validate_response on drawn statuses side by side with the fetch cycle
\* that acts on its verdict
SpecValidateAndCycle ==
    (InitValidate \/ Init) /\ [][NextValidate \/ Next]_vars

-----------------------------------------------------------------------------
(* SpecAuth: NetsuiteAuthenticator, the Credential Provider *)

\* create_for_stream passes only the stream, so the authenticator is built
\* without a default expiration
default_expiration == None

\* an authenticator object as __init__ leaves it
NewAuthenticator ==
    [access_token |-> None, expires_in |-> None, last_refreshed |-> None]

\* variant: the class without its metaclass, every call builds an object
singleton_call_fresh(single, created) == created + 1

\* NetsuiteAuthenticator(stream=stream) under SingletonMeta: the index in
\* auths of the object returned, created counting the objects built so far
singleton_call(single, created) ==
    IF ~IsNone(single) THEN Val(single) ELSE created + 1

\* a token is held and its expiry lies after t
is_token_valid(cred, t) ==
    IF IsNone(cred.last_refreshed) THEN FALSE
    ELSE IF IsNone(cred.expires_in) THEN TRUE
         ELSE Val(cred.expires_in) > t - Val(cred.last_refreshed)

\* what the token endpoint may answer: a token with or without expires_in,
\* an error object, or a body that is not JSON
TokenResponses ==
    {[status |-> 200, kind |-> "token", expires_in |-> e]
        : e \in 1..MaxExpiresIn}
    \cup {[status |-> 200, kind |-> "token_no_expires_in", expires_in |-> 0],
          [status |-> 302, kind |-> "not_json", expires_in |-> 0],
          [status |-> 401, kind |-> "error_json", expires_in |-> 0],
          [status |-> 503, kind |-> "error_json", expires_in |-> 0],
          [status |-> 503, kind |-> "not_json", expires_in |-> 0]}

\* variant: last_refreshed is assigned before the request is made
update_access_token_stamped(cred, rt, resp, tok) ==
    LET c0 == [cred EXCEPT !.last_refreshed = Some(rt)] IN
    IF 400 <= resp.status /\ resp.status < 600
    THEN IF resp.kind = "not_json"
         THEN [err |-> "JSONDecodeError", carried |-> "", cred |-> c0]
         ELSE [err |-> "RuntimeError", carried |-> resp.kind, cred |-> c0]
    ELSE IF resp.kind = "not_json"
         THEN [err |-> "JSONDecodeError", carried |-> "", cred |-> c0]
         ELSE IF resp.kind = "error_json"
              THEN [err |-> "KeyError", carried |-> "", cred |-> c0]
              ELSE LET c1 == [c0 EXCEPT !.access_token = Some(tok)]
                   IN IF resp.kind = "token_no_expires_in"
                         /\ IsNone(default_expiration)
                      THEN [err |-> "TypeError", carried |-> "",
                            cred |-> c1]
                      ELSE [err |-> "", carried |-> "",
                            cred |-> [c1 EXCEPT
                               !.expires_in =
                                  IF resp.kind = "token"
                                  THEN Some(resp.expires_in)
                                  ELSE default_expiration]]

\* update_access_token from the answer up to the assignment of access_token
\* (raise_for_status, json(), token_json["access_token"]), tok being the
\* access_token the answer carries: the exception raised ("" if none), the
\* body the RuntimeError carries, and the object's fields
store_access_token(cred, resp, tok) ==
    IF 400 <= resp.status /\ resp.status < 600
    THEN IF resp.kind = "not_json"
         THEN [err |-> "JSONDecodeError", carried |-> "", cred |-> cred]
         ELSE [err |-> "RuntimeError", carried |-> resp.kind, cred |-> cred]
    ELSE IF resp.kind = "not_json"
         THEN [err |-> "JSONDecodeError", carried |-> "", cred |-> cred]
         ELSE IF resp.kind = "error_json"
              THEN [err |-> "KeyError", carried |-> "", cred |-> cred]
              ELSE [err |-> "", carried |-> "",
                    cred |-> [cred EXCEPT !.access_token = Some(tok)]]

\* the assignment of expires_in from the answer or the default expiration
store_expires_in(cred, resp) ==
    IF resp.kind = "token_no_expires_in" /\ IsNone(default_expiration)
    THEN [err |-> "TypeError", carried |-> "", cred |-> cred]
    ELSE [err |-> "", carried |-> "",
          cred |-> [cred EXCEPT
                      !.expires_in = IF resp.kind = "token"
                                     THEN Some(resp.expires_in)
                                     ELSE default_expiration]]

\* the assignment of last_refreshed from the request_time rt
store_last_refreshed(cred, rt) == [cred EXCEPT !.last_refreshed = Some(rt)]

\* update_access_token run by one caller without interruption, on the answer
\* resp of the token endpoint and the request_time rt
update_access_token(cred, rt, resp, tok) ==
    LET r1 == store_access_token(cred, resp, tok) IN
    IF r1.err # "" THEN r1
    ELSE LET r2 == store_expires_in(r1.cred, resp) IN
         IF r2.err # "" THEN r2
         ELSE [err |-> "", carried |-> "",
               cred |-> store_last_refreshed(r2.cred, rt)]

InitAuth ==
    /\ single_instance = None
    /\ authOf = [i \in StreamInstances |-> None]
    /\ auths = <<>> /\ now = 0 /\ authPc = "Ready" /\ authCaller = 0
    /\ request_time = 0 /\ exchangeLog = <<>> /\ sentLog = <<>>
    /\ authError = "" /\ updating = {}
    /\ fn = "idle" /\ FnIdle /\ CycleIdle /\ RunIdle

\* stream instance i prepares a request: self.authenticator (cached per
\* instance), then the headers, which start a token exchange when no valid
\* token is held
AuthRequest(i) ==
    /\ authPc = "Ready"
    /\ Len(sentLog) < MaxRequests
    /\ LET a == IF IsNone(authOf[i])
                THEN singleton_call(single_instance, Len(auths))
                ELSE Val(authOf[i])
           auths1 == IF a > Len(auths)
                     THEN Append(auths, NewAuthenticator) ELSE auths
       IN /\ authOf' = [authOf EXCEPT ![i] = Some(a)]
          /\ single_instance' = IF IsNone(single_instance)
                                THEN Some(a) ELSE single_instance
          /\ auths' = auths1
          /\ IF is_token_valid(auths1[a], now)
             THEN /\ sentLog' = Append(sentLog,
                        [by |-> i, token |-> Val(auths1[a].access_token),
                         exchanges |-> Len(exchangeLog)])
                  /\ UNCHANGED <<authPc, authCaller, request_time,
                                 exchangeLog>>
             ELSE /\ authPc' = "Exchanging"
                  /\ authCaller' = i
                  /\ request_time' = now
                  /\ exchangeLog' = Append(exchangeLog,
                        [by |-> i, auth |-> a, at |-> now, status |-> 0,
                         kind |-> "", expires_in |-> 0, line |-> 50,
                         err |-> "", carried |-> "",
                         before |-> auths1[a], after |-> auths1[a]])
                  /\ UNCHANGED sentLog
    /\ UNCHANGED <<now, authError, updating>>
    /\ UNCHANGED <<fnVars, cycleVars, runVars>>

\* the token endpoint answers the POST of update_access_token
TokenResponse(resp) ==
    /\ authPc = "Exchanging"
    /\ LET a == Val(authOf[authCaller])
           n == Len(exchangeLog)
           r == update_access_token(auths[a], request_time, resp, n)
       IN /\ auths' = [auths EXCEPT ![a] = r.cred]
          /\ exchangeLog' = [exchangeLog EXCEPT ![n] =
                [@ EXCEPT !.status = resp.status, !.kind = resp.kind,
                          !.expires_in = resp.expires_in, !.line = 0,
                          !.err = r.err, !.carried = r.carried,
                          !.after = r.cred]]
          /\ IF r.err = ""
             THEN /\ authPc' = "Ready"
                  /\ sentLog' = Append(sentLog,
                        [by |-> authCaller,
                         token |-> Val(r.cred.access_token),
                         exchanges |-> n])
                  /\ UNCHANGED authError
             ELSE /\ authPc' = "Aborted"
                  /\ authError' = r.err
                  /\ UNCHANGED sentLog
    /\ UNCHANGED <<single_instance, authOf, now, authCaller, request_time,
                   updating>>
    /\ UNCHANGED <<fnVars, cycleVars, runVars>>

\* time passes
Tick ==
    /\ authPc \in {"Ready", "Exchanging"}
    /\ now < MaxClock
    /\ now' = now + 1
    /\ UNCHANGED <<single_instance, authOf, auths, authPc, authCaller,
                   request_time, exchangeLog, sentLog, authError, updating>>
    /\ UNCHANGED <<fnVars, cycleVars, runVars>>

NextAuth ==
    \/ \E i \in StreamInstances : AuthRequest(i)
    \/ \E resp \in TokenResponses : TokenResponse(resp)
    \/ Tick

SpecAuth == InitAuth /\ [][NextAuth]_vars

-----------------------------------------------------------------------------
(* SpecAuthConcurrent: the authenticator used by streams that run
   concurrently; nothing in NetsuiteAuthenticator serialises its callers *)

\* the exchanges whose POST has not been answered yet
InFlight == {n \in 1..Len(exchangeLog) : exchangeLog[n].status = 0}

\* the exchanges whose caller has not sent its request yet; line is where the
\* caller stands: 50 waiting for the POST, 67 and 74 before the assignment
\* of expires_in and of last_refreshed, 75 back from update_access_token
Pending == {n \in 1..Len(exchangeLog) : exchangeLog[n].line # 0}

\* the callers that an exception has taken out of update_access_token:
\* their sync has ended, the other callers go on
Stopped ==
    {exchangeLog[n].by :
        n \in {m \in 1..Len(exchangeLog) : exchangeLog[m].err # ""}}

\* stream instance i, one of the MaxThreads instances that run concurrently,
\* prepares a request while the others may be in update_access_token: with a
\* valid token it sends, without one it calls update_access_token
ConcurrentAuthRequest(i) ==
    /\ i \notin Stopped /\ i \notin updating
    /\ \A n \in Pending : exchangeLog[n].by # i
    /\ Len(sentLog) + Cardinality(Pending) + Cardinality(updating)
          < MaxRequests
    /\ LET a == IF IsNone(authOf[i])
                THEN singleton_call(single_instance, Len(auths))
                ELSE Val(authOf[i])
           auths1 == IF a > Len(auths)
                     THEN Append(auths, NewAuthenticator) ELSE auths
       IN /\ authOf' = [authOf EXCEPT ![i] = Some(a)]
          /\ single_instance' = IF IsNone(single_instance)
                                THEN Some(a) ELSE single_instance
          /\ auths' = auths1
          /\ IF is_token_valid(auths1[a], now)
             THEN /\ sentLog' = Append(sentLog,
                        [by |-> i, token |-> Val(auths1[a].access_token),
                         exchanges |-> Len(exchangeLog)])
                  /\ UNCHANGED updating
             ELSE /\ updating' = updating \cup {i}
                  /\ UNCHANGED sentLog
    /\ UNCHANGED <<now, authPc, authCaller, request_time, exchangeLog,
                   authError>>
    /\ UNCHANGED <<fnVars, cycleVars, runVars>>

\* caller i, in update_access_token, takes its request_time and posts to the
\* token endpoint, whatever has become of the shared token since it found
\* none valid
BeginExchange(i) ==
    /\ i \in updating
    /\ updating' = updating \ {i}
    /\ LET a == Val(authOf[i]) IN
       exchangeLog' = Append(exchangeLog,
            [by |-> i, auth |-> a, at |-> now, status |-> 0,
             kind |-> "", expires_in |-> 0, line |-> 50,
             err |-> "", carried |-> "",
             before |-> auths[a], after |-> auths[a]])
    /\ authCaller' = i
    /\ request_time' = now
    /\ authPc' = IF authPc = "Aborted" THEN "Aborted" ELSE "Exchanging"
    /\ UNCHANGED <<single_instance, authOf, auths, now, sentLog, authError>>
    /\ UNCHANGED <<fnVars, cycleVars, runVars>>

\* the caller of an exchange leaves update_access_token with exception e;
\* the run has failed, and the other callers are not interrupted
RaiseInExchange(e) ==
    /\ authPc' = "Aborted"
    /\ authError' = e

\* the token endpoint answers exchange n; its caller checks the answer and
\* assigns access_token
ConcurrentTokenResponse(n, resp) ==
    /\ n \in InFlight
    /\ LET e == exchangeLog[n]
           r == store_access_token(auths[e.auth], resp, n)
       IN /\ auths' = [auths EXCEPT ![e.auth] = r.cred]
          /\ exchangeLog' = [exchangeLog EXCEPT ![n] =
                [@ EXCEPT !.status = resp.status, !.kind = resp.kind,
                          !.expires_in = resp.expires_in,
                          !.line = IF r.err = "" THEN 67 ELSE 0,
                          !.err = r.err, !.carried = r.carried,
                          !.before = auths[e.auth], !.after = r.cred]]
          /\ IF r.err = ""
             THEN UNCHANGED <<authPc, authError>>
             ELSE RaiseInExchange(r.err)
    /\ UNCHANGED <<single_instance, authOf, now, authCaller, request_time,
                   sentLog, updating>>
    /\ UNCHANGED <<fnVars, cycleVars, runVars>>

\* the caller of exchange n assigns expires_in
AssignExpiresIn(n) ==
    /\ n \in Pending /\ exchangeLog[n].line = 67
    /\ LET e == exchangeLog[n]
           r == store_expires_in(auths[e.auth], e)
       IN /\ auths' = [auths EXCEPT ![e.auth] = r.cred]
          /\ exchangeLog' = [exchangeLog EXCEPT ![n] =
                [@ EXCEPT !.line = IF r.err = "" THEN 74 ELSE 0,
                          !.err = r.err, !.after = r.cred]]
          /\ IF r.err = ""
             THEN UNCHANGED <<authPc, authError>>
             ELSE RaiseInExchange(r.err)
    /\ UNCHANGED <<single_instance, authOf, now, authCaller, request_time,
                   sentLog, updating>>
    /\ UNCHANGED <<fnVars, cycleVars, runVars>>

\* the caller of exchange n assigns last_refreshed and returns from
\* update_access_token
AssignLastRefreshed(n) ==
    /\ n \in Pending /\ exchangeLog[n].line = 74
    /\ LET e == exchangeLog[n]
           c == store_last_refreshed(auths[e.auth], e.at)
       IN /\ auths' = [auths EXCEPT ![e.auth] = c]
          /\ exchangeLog' = [exchangeLog EXCEPT ![n] =
                [@ EXCEPT !.line = 75, !.after = c]]
    /\ UNCHANGED <<single_instance, authOf, now, authPc, authCaller,
                   request_time, sentLog, authError, updating>>
    /\ UNCHANGED <<fnVars, cycleVars, runVars>>

\* the caller of exchange n reads access_token for its header and sends its
\* request
SendAfterRefresh(n) ==
    /\ n \in Pending /\ exchangeLog[n].line = 75
    /\ LET e == exchangeLog[n] IN
       /\ sentLog' = Append(sentLog,
                            [by |-> e.by,
                             token |-> Val(auths[e.auth].access_token),
                             exchanges |-> n])
       /\ exchangeLog' = [exchangeLog EXCEPT ![n] = [@ EXCEPT !.line = 0]]
    /\ authPc' = IF authPc = "Aborted" THEN "Aborted"
                 ELSE IF Pending = {n} THEN "Ready" ELSE "Exchanging"
    /\ UNCHANGED <<single_instance, authOf, auths, now, authCaller,
                   request_time, authError, updating>>
    /\ UNCHANGED <<fnVars, cycleVars, runVars>>

\* time passes, for every caller still running
ConcurrentTick ==
    /\ now < MaxClock
    /\ now' = now + 1
    /\ UNCHANGED <<single_instance, authOf, auths, authPc, authCaller,
                   request_time, exchangeLog, sentLog, authError, updating>>
    /\ UNCHANGED <<fnVars, cycleVars, runVars>>

NextAuthConcurrent ==
    \/ \E i \in 1..MaxThreads : ConcurrentAuthRequest(i)
    \/ \E i \in 1..MaxThreads : BeginExchange(i)
    \/ \E n \in 1..Len(exchangeLog), resp \in TokenResponses :
          ConcurrentTokenResponse(n, resp)
    \/ \E n \in 1..Len(exchangeLog) : AssignExpiresIn(n)
    \/ \E n \in 1..Len(exchangeLog) : AssignLastRefreshed(n)
    \/ \E n \in 1..Len(exchangeLog) : SendAfterRefresh(n)
    \/ ConcurrentTick

SpecAuthConcurrent == InitAuth /\ [][NextAuthConcurrent]_vars

-----------------------------------------------------------------------------
(* SpecRun: one run of the tap over the streams it discovers *)

\* Tap.discover_streams: the list stream classes the tap instantiates
discover_streams == <<"customers", "inventory_items", "purchase_orders">>

InitRun ==
    /\ runPc = "Running" /\ runIdx = 1 /\ synced = <<>>
    /\ InitCycle(discover_streams[1])
    /\ fn = "idle" /\ FnIdle /\ AuthIdle

\* the fetch cycle of the stream being synced takes a step
SyncStep == runPc = "Running" /\ Next

\* the stream's records are exhausted and the run goes on to the next one
StartNextStream ==
    /\ runPc = "Running" /\ pc = "Done"
    /\ runIdx < Len(discover_streams)
    /\ synced' = Append(synced, stream)
    /\ runIdx' = runIdx + 1
    /\ stream' = discover_streams[runIdx + 1]
    /\ cursor' \in {None} \cup {Some(d) : d \in CycleDates}
    /\ numRecords' \in 0..MaxRecords
    /\ vetoIds' \in {{}} \cup {{IdAt(i)} : i \in 1..numRecords'}
    /\ pc' = "Start" /\ token' = None /\ page' = ErrorBody
    /\ pageStatus' = 0 /\ idx' = 0 /\ tries' = 0 /\ subToken' = None
    /\ yielded' = <<>> /\ listLog' = <<>> /\ detailLog' = <<>>
    /\ accepted' = <<>> /\ emitted' = <<>> /\ error' = ""
    /\ lastStatus' = 0 /\ pageLog' = <<>> /\ bookmark' = None
    /\ UNCHANGED runPc
    /\ UNCHANGED <<fnVars, authVars>>

\* the last stream's records are exhausted
FinishRun ==
    /\ runPc = "Running" /\ pc = "Done"
    /\ runIdx = Len(discover_streams)
    /\ synced' = Append(synced, stream)
    /\ runPc' = "Finished"
    /\ UNCHANGED runIdx
    /\ UNCHANGED <<fnVars, cycleVars, authVars>>

\* an exception leaves get_records and ends the run
AbortRun ==
    /\ runPc = "Running" /\ pc = "Failed"
    /\ runPc' = "Aborted"
    /\ UNCHANGED <<runIdx, synced>>
    /\ UNCHANGED <<fnVars, cycleVars, authVars>>

NextRun == SyncStep \/ StartNextStream \/ FinishRun \/ AbortRun

SpecRun == InitRun /\ [][NextRun]_vars

-----------------------------------------------------------------------------
(* Claims about the Paginator (SpecPaginator) *)

IsListBody(body) == "hasMore" \in DOMAIN body

\* C1: for every list response body with hasMore = false,
\* get_next_page_token returns None, whatever offset, count and the previous
\* token are.
C1_NoTokenWhenNoMore ==
    (fn = "get_next_page_token" /\ IsListBody(fnBody) /\ ~fnBody.hasMore)
        => (fnToken.err = "" /\ fnToken.token = None)

C1_Witness ==
    /\ fn = "get_next_page_token"
    /\ IsListBody(fnBody) /\ ~fnBody.hasMore
    /\ fnBody.offset = 2 /\ fnBody.count = 1
    /\ fnPrev = Some(2)
    /\ fnToken.token = None

\* C2: for every list response body with hasMore = true,
\* get_next_page_token returns exactly offset + count, independent of the
\* previous token.
C2_TokenIsOffsetPlusCount ==
    (fn = "get_next_page_token" /\ IsListBody(fnBody) /\ fnBody.hasMore)
        => (fnToken.err = ""
            /\ fnToken.token = Some(fnBody.offset + fnBody.count))

C2_Witness ==
    /\ fn = "get_next_page_token"
    /\ IsListBody(fnBody) /\ fnBody.hasMore
    /\ fnBody.offset = 2 /\ fnBody.count = 1
    /\ fnPrev = Some(1)
    /\ fnToken.token = Some(3)

DigitVal(c) ==
    CASE c = "0" -> 0 [] c = "1" -> 1 [] c = "2" -> 2 [] c = "3" -> 3
      [] c = "4" -> 4 [] c = "5" -> 5 [] c = "6" -> 6 [] c = "7" -> 7
      [] c = "8" -> 8 [] c = "9" -> 9 [] OTHER -> 100000

\* q reads  <key> AFTER "DD/MM/YYYY"  for the date d
IsFilterClause(q, key, d) ==
    /\ Len(q) = 14
    /\ q[1] = key /\ q[2] = " AFTER " /\ q[3] = "\"" /\ q[14] = "\""
    /\ q[6] = "/" /\ q[9] = "/"
    /\ 10 * DigitVal(q[4]) + DigitVal(q[5]) = d.day
    /\ 10 * DigitVal(q[7]) + DigitVal(q[8]) = d.month
    /\ 1000 * DigitVal(q[10]) + 100 * DigitVal(q[11])
         + 10 * DigitVal(q[12]) + DigitVal(q[13]) = d.year

\* C3: with a replication key and a cursor C every query built by
\* get_url_params, for the first page (no token) and for later pages, carries
\* the filter  <key> AFTER "<C as DD/MM/YYYY>" ; a stream without a
\* replication key never carries a filter.
C3_FilterClause ==
    (fn = "get_url_params" /\ fnParams.err = "")
        => IF IsNone(replication_key(fnStream))
           THEN "q" \notin DOMAIN fnParams.params
           ELSE /\ ~IsNone(fnCursor)
                /\ "q" \in DOMAIN fnParams.params
                /\ IsFilterClause(fnParams.params["q"],
                                  Val(replication_key(fnStream)),
                                  Val(fnCursor))

C3_Witness ==
    /\ fn = "get_url_params"
    /\ fnStream = "customers"
    /\ fnCursor = Some([year |-> 2024, month |-> 12, day |-> 9])
    /\ fnToken.token = Some(3)
    /\ fnParams.err = ""
    /\ fnParams.params["q"] =
         <<"lastModifiedDate", " AFTER ", "\"", "0", "9", "/", "1", "2", "/",
           "2", "0", "2", "4", "\"">>

\* C4 as stated: every query carries limit = 1000 and carries offset = token
\* exactly when a page token is present, for every token that
\* get_next_page_token can return.
C4_OffsetIffTokenPresent ==
    (fn = "get_url_params" /\ fnParams.err = "")
        => /\ fnParams.params["limit"] = 1000
           /\ ("offset" \in DOMAIN fnParams.params) <=> ~IsNone(fnToken.token)
           /\ "offset" \in DOMAIN fnParams.params
                => fnParams.params["offset"] = Val(fnToken.token)

\* C4 amended: every query carries limit = 1000 and carries offset = token
\* exactly when the token is present and not 0; the token 0, which
\* get_next_page_token returns for hasMore with offset + count = 0, adds no
\* offset parameter.
C4_OffsetIffTokenTruthy ==
    (fn = "get_url_params" /\ fnParams.err = "")
        => /\ fnParams.params["limit"] = 1000
           /\ ("offset" \in DOMAIN fnParams.params)
                <=> (~IsNone(fnToken.token) /\ Val(fnToken.token) # 0)
           /\ "offset" \in DOMAIN fnParams.params
                => fnParams.params["offset"] = Val(fnToken.token)

C4_Witness ==
    /\ fn = "get_url_params"
    /\ fnParams.err = ""
    /\ fnBody.hasMore /\ fnBody.offset = 2 /\ fnBody.count = 1
    /\ fnParams.params["limit"] = 1000
    /\ "offset" \in DOMAIN fnParams.params
    /\ fnParams.params["offset"] = 3

-----------------------------------------------------------------------------
(* Claims about custom-field folding (SpecPostProcess) *)

\* C6: on a stream with custom-field prefix P, post_process sets field P to
\* an array holding exactly one one-key mapping {k: v} for each top-level
\* field k of the raw record whose name starts with P, and nothing else.
C6_BucketHoldsPrefixedFields ==
    (fn = "post_process" /\ custom_attribute_prefix(fnStream) # None)
        => LET P == custom_attribute_prefix(fnStream) IN
           /\ HasKey(fnOnce, P)
           /\ DictGet(fnOnce, P).t = "list"
           /\ LET l == DictGet(fnOnce, P).l IN
              /\ \A i \in 1..Len(fnRow) :
                    StartsWith(fnRow[i].k, P)
                        => Cardinality({j \in 1..Len(l) :
                                            l[j] = <<fnRow[i]>>}) = 1
              /\ \A j \in 1..Len(l) :
                    \E i \in 1..Len(fnRow) :
                        StartsWith(fnRow[i].k, P) /\ l[j] = <<fnRow[i]>>

C6_Witness ==
    /\ fn = "post_process"
    /\ fnStream = "inventory_items"
    /\ fnRow = << [k |-> K_id, v |-> Str("5")],
                  [k |-> K_custitem \o K_foo, v |-> Str("bar")],
                  [k |-> K_displayName, v |-> Str("Widget")] >>
    /\ DictGet(fnOnce, K_custitem) =
         List(<< <<[k |-> K_custitem \o K_foo, v |-> Str("bar")]>> >>)

\* C7 as stated: folding is idempotent, post_process(post_process(r)) equals
\* post_process(r) for every record r and prefix P.
C7_FoldingIdempotent ==
    fn = "post_process_again" => fnTwice = fnOnce

-----------------------------------------------------------------------------
(* Claims about the fetch cycle (Spec) *)

\* C5 as stated: when a list request returns HTTP 400 the page yields zero
\* IndexRecords and the cycle ends without any error, neither from
\* validate_response nor from the next-page-token computation on that
\* response.
C5_BadRequestPageIsEmptyNoError ==
    pageStatus = 400
        => /\ Items(page) = <<>>
           /\ error = ""
           /\ pc \in {"Expanding", "Done"}

\* C8 as stated: every emitted DetailRecord's id is the id of exactly one
\* IndexRecord yielded earlier in the cycle, also when a detail request is
\* answered with HTTP 400, and no id is expanded twice.
C8_EmittedMatchesOneIndexRecord ==
    /\ \A j \in 1..Len(emitted) :
          /\ HasKey(emitted[j], K_id)
          /\ Cardinality({i \in 1..Len(yielded) :
                            Str(yielded[i]) = DictGet(emitted[j], K_id)}) = 1
    /\ \A a, b \in 1..Len(detailLog) :
          a # b => detailLog[a].id # detailLog[b].id

AcceptedFor(id) == {a \in 1..Len(accepted) : accepted[a].id = id}

\* C9: for each IndexRecord yielded, the sub-stream prepares exactly one
\* detail request, on the path templated with that record's id and with no
\* query parameters; one response is accepted for it and no second page is
\* asked for, whatever the detail body is.
C9_OneDetailRequestPerIndexRecord ==
    /\ Len(detailLog) = Len(yielded)
    /\ \A i \in 1..Len(yielded) :
          /\ detailLog[i].id = yielded[i]
          /\ detailLog[i].path = sub_path(stream, yielded[i])
          /\ detailLog[i].path[2] = yielded[i]
          /\ DOMAIN detailLog[i].params = {}
          /\ Cardinality(AcceptedFor(yielded[i])) <= 1
          /\ (i < Len(yielded) \/ pc \in {"Yielded", "Consumed", "Expanding",
                                          "Advanced", "FetchingPage",
                                          "Done"})
                => Cardinality(AcceptedFor(yielded[i])) = 1

C9_Witness ==
    /\ pc = "Done"
    /\ Len(listLog) = 2
    /\ Len(yielded) = 3 /\ Len(detailLog) = 3 /\ Len(accepted) = 3
    /\ \E a \in 1..Len(accepted) : accepted[a].status = 400
    /\ \E a \in 1..Len(accepted) : accepted[a].status = 200

RECURSIVE KeptRows(_)
\* the accepted detail bodies that post-processing does not filter out,
\* post-processed, in order
KeptRows(acc) ==
    IF acc = <<>> THEN <<>>
    ELSE LET a == acc[Len(acc)]
             before == KeptRows(SubSeq(acc, 1, Len(acc) - 1))
         IN IF a.id \in vetoIds THEN before
            ELSE Append(before,
                        post_process(custom_attribute_prefix(stream), a.row))

\* C10: a detail record whose post-processing returns None is not emitted
\* and raises no error, the enumeration goes on with the next IndexRecord,
\* and every other record is emitted as usual.
C10_FilteredRecordIsSkipped ==
    /\ [](emitted = KeptRows(accepted))
    /\ [][(Len(accepted') = Len(accepted) + 1
            /\ accepted'[Len(accepted')].id \in vetoIds)
          => (/\ emitted' = emitted
              /\ error' = ""
              /\ pc' = "Expanding"
              /\ idx' = idx + 1)]_vars

C10_Witness ==
    /\ pc = "Done"
    /\ Len(accepted) = 3
    /\ accepted[2].id \in vetoIds
    /\ accepted[2].status = 200
    /\ accepted[3].status = 200
    /\ Len(emitted) = 2
    /\ DictGet(emitted[2], K_id) = Str(accepted[3].id)

-----------------------------------------------------------------------------
(* Claims about response validation (SpecValidate, SpecValidateAndCycle) *)

\* C11: validate_response raises RetriableAPIError, never FatalAPIError, for
\* every status in 500..max(HTTPStatus) = 511 and for every status listed in
\* extra_retry_statuses other than 400.
C11_RetriableStatuses ==
    (/\ fn = "validate_response"
     /\ \/ (500 <= fnStatus /\ fnStatus <= 511)
        \/ (fnStatus \in fnExtra /\ fnStatus # 400))
        => fnVerdict = "RetriableAPIError"

C11_Witness ==
    /\ fn = "validate_response"
    /\ fnStatus = 404 /\ fnExtra = {404, 429}
    /\ fnVerdict = "RetriableAPIError"

\* a step of the cycle in which the answer to the list request arrives
ListResponseStep == pc = "FetchingPage" /\ cycleVars' # cycleVars

\* C12: validate_response raises FatalAPIError for every status in 401..499
\* that is not configured as retriable, and raises nothing for 400 and for
\* every status below 400 that is not configured as retriable; a fatal error
\* on a list request ends that stream's fetch cycle, which does nothing more.
C12_FatalStatuses ==
    /\ [](fn = "validate_response"
            => /\ (401 <= fnStatus /\ fnStatus <= 499
                   /\ fnStatus \notin fnExtra)
                    => fnVerdict = "FatalAPIError"
               /\ (fnStatus = 400
                   \/ (fnStatus < 400 /\ fnStatus \notin fnExtra))
                    => fnVerdict = "ok")
    /\ [][(/\ ListResponseStep
           /\ 401 <= lastStatus' /\ lastStatus' <= 499
           /\ lastStatus' \notin extra_retry_statuses)
            => (pc' = "Failed" /\ error' = "FatalAPIError")]_vars
    /\ [][pc = "Failed" => cycleVars' = cycleVars]_vars

C12_Witness ==
    /\ pc = "Failed" /\ error = "FatalAPIError"
    /\ lastStatus = 401
    /\ Len(listLog) = 2 /\ Len(pageLog) = 1
    /\ Len(accepted) = Len(yielded)
    /\ Len(emitted) >= 1

-----------------------------------------------------------------------------
(* Claims about retries, paging order and sequencing (Spec, LiveSpec) *)

\* a step of the cycle in which the answer to the detail request arrives
DetailResponseStep == pc = "DetailRequest" /\ cycleVars' # cycleVars

\* the emitted records that carry the id
EmittedFor(id) ==
    {j \in 1..Len(emitted) :
        HasKey(emitted[j], K_id) /\ DictGet(emitted[j], K_id) = Str(id)}

\* C13: a detail request answered with a retriable status while attempts
\* are left stays in flight, emits nothing and raises nothing; answered 200
\* on the retry it emits exactly one DetailRecord for that IndexRecord, not
\* zero and not two, and no error reaches the caller.
C13_RetryEmitsOnce ==
    /\ [][(/\ DetailResponseStep
           /\ \/ (500 <= lastStatus' /\ lastStatus' <= 511)
              \/ lastStatus' \in extra_retry_statuses
           /\ tries + 1 < MaxTries)
            => (/\ pc' = "DetailRequest" /\ error' = ""
                /\ tries' = tries + 1
                /\ emitted' = emitted /\ accepted' = accepted
                /\ detailLog' = detailLog /\ yielded' = yielded)]_vars
    /\ [][(/\ DetailResponseStep
           /\ tries >= 1 /\ lastStatus' = 200
           /\ yielded[Len(yielded)] \notin vetoIds)
            => (/\ pc' = "Yielded" /\ error' = ""
                /\ Len(emitted') = Len(emitted) + 1
                /\ HasKey(emitted'[Len(emitted')], K_id)
                /\ DictGet(emitted'[Len(emitted')], K_id)
                     = Str(yielded[Len(yielded)]))]_vars
    /\ [](\A a \in 1..Len(accepted) :
            (/\ accepted[a].attempts >= 2 /\ accepted[a].status = 200
             /\ accepted[a].id \notin vetoIds)
                => Cardinality(EmittedFor(accepted[a].id)) = 1)

C13_Witness ==
    /\ pc = "Done" /\ error = ""
    /\ Len(accepted) = 1
    /\ accepted[1].attempts = 2 /\ accepted[1].status = 200
    /\ Len(emitted) = 1
    /\ DictGet(emitted[1], K_id) = Str(accepted[1].id)

\* a step of the cycle in which the list paginator advances
AdvanceStep ==
    /\ pc = "Expanding" /\ idx = Len(Items(page))
    /\ cycleVars' # cycleVars

Max(a, b) == IF a > b THEN a ELSE b

LastPageAnswered == pageStatus = 200 /\ ~page.hasMore

\* C14: the Index Fetcher goes Start -> FetchingPage, asks for another page
\* while the response says hasMore (the Paginator returns a token) and
\* reaches Done exactly when it does not, a response without records apart,
\* on which the request loop may end at once; once the server has answered
\* a page with hasMore = false the cycle reaches Done unless an error ends
\* it, every cycle ends, and the page requests number at most the records.
C14_FetcherReachesDone ==
    /\ [][(pc = "Start" /\ pc' # pc)
            => pc' \in {"FetchingPage", "Failed"}]_vars
    /\ [][(AdvanceStep /\ "hasMore" \in DOMAIN page)
            => IF page.hasMore
               THEN /\ pc' = "Advanced"
                    /\ token' = Some(page.offset + page.count)
               ELSE pc' = "Done" /\ listLog' = listLog]_vars
    /\ [][(pc = "Advanced" /\ cycleVars' # cycleVars)
            => (pc' = "FetchingPage"
                /\ Len(listLog') = Len(listLog) + 1)]_vars
    /\ [][(pc' = "Done" /\ pc # "Done")
            => (AdvanceStep
                /\ (LastPageAnswered \/ Items(page) = <<>>))]_vars
    /\ [](Len(listLog) <= Max(1, numRecords))
    /\ (LastPageAnswered ~> (pc = "Done" \/ pc = "Failed"))
    /\ <>(pc = "Done" \/ pc = "Failed")
    /\ [](pc = "Failed" => error # "")

C14_Witness ==
    /\ pc = "Done" /\ error = ""
    /\ Len(listLog) = 3 /\ Len(pageLog) = 3
    /\ IsListBody(pageLog[3]) /\ ~pageLog[3].hasMore
    /\ token = Some(2)

\* C15: list pages are requested in strict offset order: the first request
\* carries no offset, every later one carries offset + count of the list
\* response just before it, a request is only made after the previous
\* response said hasMore, and no cycle finishes on a page that said hasMore.
C15_StrictOffsetOrder ==
    /\ Len(pageLog) <= Len(listLog)
    /\ Len(listLog) <= Len(pageLog) + 1
    /\ Len(listLog) >= 1 => "offset" \notin DOMAIN listLog[1]
    /\ \A i \in 2..Len(listLog) :
          /\ "hasMore" \in DOMAIN pageLog[i - 1]
          /\ pageLog[i - 1].hasMore
          /\ "offset" \in DOMAIN listLog[i]
          /\ listLog[i]["offset"]
               = pageLog[i - 1].offset + pageLog[i - 1].count
    /\ pc = "Done"
          => /\ Len(pageLog) = Len(listLog)
             /\ IsListBody(pageLog[Len(pageLog)])
                   => ~pageLog[Len(pageLog)].hasMore

C15_Witness ==
    /\ pc = "Done"
    /\ Len(listLog) = 2 /\ Len(pageLog) = 2
    /\ pageLog[1].offset = 0 /\ pageLog[1].count = 2 /\ pageLog[1].hasMore
    /\ listLog[2]["offset"] = 2
    /\ IsListBody(pageLog[2])
    /\ pageLog[2].offset = 2 /\ pageLog[2].count = 1 /\ ~pageLog[2].hasMore

RECURSIVE IdsOfPages(_)
\* the ids of the IndexRecords of the accepted pages, in page order
IdsOfPages(pl) ==
    IF pl = <<>> THEN <<>>
    ELSE LET its == Items(pl[Len(pl)])
         IN IdsOfPages(SubSeq(pl, 1, Len(pl) - 1))
              \o [i \in 1..Len(its) |-> its[i].id]

\* C20: within one stream the pipeline is sequential: detail requests are made
\* in the order the IndexRecords appear in the pages, one at a time, and
\* the list request of the next page is made only when every IndexRecord of
\* the pages before it has had its detail answer post-processed.
C20_SequentialPipeline ==
    LET all == IdsOfPages(pageLog) IN
    /\ Len(detailLog) <= Len(all)
    /\ \A i \in 1..Len(detailLog) : detailLog[i].id = all[i]
    /\ Len(accepted) <= Len(detailLog)
    /\ Len(detailLog) <= Len(accepted) + 1
    /\ \A i \in 1..Len(accepted) : accepted[i].id = all[i]
    /\ emitted = KeptRows(accepted)
    /\ (Len(listLog) > Len(pageLog) \/ pc \in {"Advanced", "Done"})
          => /\ Len(accepted) = Len(all)
             /\ Len(detailLog) = Len(all)

C20_Witness ==
    /\ pc = "FetchingPage"
    /\ Len(listLog) = 2 /\ Len(pageLog) = 1
    /\ Len(Items(pageLog[1])) = 2
    /\ Len(accepted) = 2 /\ Len(emitted) = 2
    /\ detailLog[1].id = "1" /\ detailLog[2].id = "2"

-----------------------------------------------------------------------------
(* Claims about the Credential Provider (SpecAuth) *)

\* C16: all stream instances share one authenticator object and so one
\* token: no token exchange is started while a token is held and unexpired,
\* and the requests sent between two exchanges carry the same token.
C16_OneSharedToken ==
    /\ [](/\ Len(auths) <= 1
          /\ \A i, j \in StreamInstances :
                (~IsNone(authOf[i]) /\ ~IsNone(authOf[j]))
                    => authOf[i] = authOf[j])
    /\ [][Len(exchangeLog') > Len(exchangeLog)
            => \A a \in 1..Len(auths') : ~is_token_valid(auths'[a], now)]_vars
    /\ [](\A i, j \in 1..Len(sentLog) :
            sentLog[i].exchanges = sentLog[j].exchanges
                => sentLog[i].token = sentLog[j].token)

C16_Witness ==
    /\ Len(exchangeLog) = 2 /\ Len(sentLog) = 3
    /\ sentLog[1].by # sentLog[2].by
    /\ sentLog[1].token = sentLog[2].token
    /\ sentLog[3].by # sentLog[2].by
    /\ sentLog[3].token # sentLog[2].token
    /\ exchangeLog[2].at > exchangeLog[1].at

\* C17: every answer of the token endpoint outside 200..299 makes
\* update_access_token raise RuntimeError carrying the response body, leaves
\* no usable token, is not followed by another exchange, and aborts the run.
C17_NonSuccessIsRuntimeError ==
    \A n \in 1..Len(exchangeLog) :
        LET e == exchangeLog[n] IN
        (e.status # 0 /\ ~(200 <= e.status /\ e.status <= 299))
            => /\ e.err = "RuntimeError"
               /\ e.carried = e.kind
               /\ ~is_token_valid(e.after, e.at)
               /\ n = Len(exchangeLog)
               /\ authPc = "Aborted"

\* C18: a 2xx answer with an access_token and no expires_in makes the refresh
\* succeed: the token is stored with an expiry taken from the default
\* expiration and the refresh time, and is held from then on.
C18_MissingExpiresInUsesDefault ==
    \A n \in 1..Len(exchangeLog) :
        LET e == exchangeLog[n] IN
        (e.status = 200 /\ e.kind = "token_no_expires_in")
            => /\ e.err = ""
               /\ ~IsNone(e.after.access_token)
               /\ e.after.last_refreshed = Some(e.at)
               /\ is_token_valid(e.after, e.at)
               /\ authPc # "Aborted"

-----------------------------------------------------------------------------
(* Claims about the run (SpecRun) *)

\* C19: a run executes the fetch cycle for each of the four entity streams:
\* when the run has finished, customers, inventory items, purchase orders
\* and sales orders have all been synced.
C19_RunSyncsFourStreams ==
    runPc = "Finished"
        => \A s \in RunStreams : \E n \in 1..Len(synced) : synced[n] = s

-----------------------------------------------------------------------------
(* Claims about fatal errors in the fetch cycle (Spec, SpecRun) *)

\* the answer that arrives is in the fatal range of validate_response
FatalAnswer ==
    /\ 401 <= lastStatus' /\ lastStatus' <= 499
    /\ lastStatus' \notin extra_retry_statuses

\* the cycle has ended on a fatal answer to a detail request
FatalDetailFailure ==
    /\ pc = "Failed" /\ error = "FatalAPIError"
    /\ Len(detailLog) > Len(accepted)

\* C21 as stated: a fatal answer to the detail request of one IndexRecord
\* does not end the enclosing enumeration.
C21_DetailFailureIsolated ==
    [][(DetailResponseStep /\ FatalAnswer) => pc' # "Failed"]_vars

\* C21 amended: a fatal answer to the detail request of one IndexRecord ends
\* the enclosing enumeration with FatalAPIError: the IndexRecords before it
\* have been expanded, and no further IndexRecord and no further page is
\* requested.
C21_DetailFailureEndsEnumeration ==
    /\ [][(DetailResponseStep /\ FatalAnswer)
            => (/\ pc' = "Failed" /\ error' = "FatalAPIError"
                /\ listLog' = listLog /\ detailLog' = detailLog
                /\ accepted' = accepted /\ emitted' = emitted)]_vars
    /\ [](FatalDetailFailure => Len(accepted) = Len(detailLog) - 1)
    /\ [][FatalDetailFailure => cycleVars' = cycleVars]_vars

C21_Witness ==
    /\ FatalDetailFailure
    /\ numRecords = 3 /\ Len(pageLog) = 1 /\ pageLog[1].hasMore
    /\ Len(Items(pageLog[1])) = 2
    /\ Len(detailLog) = 1 /\ Len(listLog) = 1 /\ emitted = <<>>

\* C22: once a list or detail request of the stream has raised a fatal
\* error, the stream's cycle makes no further list or detail request, and
\* what was emitted before the error stays emitted.
C22_NoRequestAfterFatal ==
    /\ [][(error = "" /\ error' = "FatalAPIError")
            => (/\ listLog' = listLog /\ detailLog' = detailLog
                /\ emitted' = emitted /\ pc' = "Failed")]_vars
    /\ [][error = "FatalAPIError"
            => (/\ listLog' = listLog /\ detailLog' = detailLog
                /\ emitted' = emitted /\ error' = error
                /\ stream' = stream)]_vars

C22_Witness ==
    /\ runPc = "Aborted" /\ error = "FatalAPIError"
    /\ runIdx = 2
    /\ Len(emitted) = 1 /\ Len(detailLog) = 2 /\ Len(listLog) = 1

-----------------------------------------------------------------------------
(* Further claims about the pure functions (SpecPostProcess, SpecPaginator,
   SpecValidate) *)

\* C24: post_process changes at most the field named after the prefix: every
\* other field of the raw record, the prefixed custom fields under their own
\* names included, is in the result with its value, no other field is added,
\* and on a stream without a prefix the record comes back unchanged.
C24_OtherFieldsKept ==
    fn = "post_process"
        => LET P == custom_attribute_prefix(fnStream) IN
           /\ \A i \in 1..Len(fnRow) :
                 fnRow[i].k # P
                     => /\ HasKey(fnOnce, fnRow[i].k)
                        /\ DictGet(fnOnce, fnRow[i].k) = fnRow[i].v
           /\ \A j \in 1..Len(fnOnce) :
                 fnOnce[j].k = P \/ HasKey(fnRow, fnOnce[j].k)
           /\ P = None => fnOnce = fnRow

C24_Witness ==
    /\ fn = "post_process"
    /\ fnStream = "inventory_items"
    /\ fnRow = << [k |-> K_custitem \o K_foo, v |-> Str("bar")],
                  [k |-> K_custitem, v |-> Str("5")],
                  [k |-> K_displayName, v |-> Str("Widget")] >>
    /\ Len(fnOnce) = 3
    /\ DictGet(fnOnce, K_custitem \o K_foo) = Str("bar")
    /\ DictGet(fnOnce, K_displayName) = Str("Widget")
    /\ DictGet(fnOnce, K_custitem) # Str("5")

\* C25: on a stream with a replication key and no cursor (no state, no
\* start_date) get_url_params succeeds and builds a query without a filter
\* clause.
C25_NoCursorNoFilter ==
    (/\ fn = "get_url_params"
     /\ ~IsNone(replication_key(fnStream))
     /\ IsNone(fnCursor))
        => /\ fnParams.err = ""
           /\ "q" \notin DOMAIN fnParams.params
           /\ "limit" \in DOMAIN fnParams.params

\* C26: validate_response is a three-way classification with a fixed
\* precedence: 400 is accepted even when listed in extra_retry_statuses, a
\* status in 401..499 listed there is retriable and not fatal, and every
\* status gets exactly one of accepted, retriable, fatal.
C26_FixedPrecedence ==
    fn = "validate_response"
        => /\ fnVerdict \in {"ok", "RetriableAPIError", "FatalAPIError"}
           /\ fnStatus = 400 => fnVerdict = "ok"
           /\ (401 <= fnStatus /\ fnStatus <= 499 /\ fnStatus \in fnExtra)
                 => fnVerdict = "RetriableAPIError"
           /\ fnVerdict = "FatalAPIError"
                 => (401 <= fnStatus /\ fnStatus <= 499
                     /\ fnStatus \notin fnExtra)

C26_Witness ==
    /\ fn = "validate_response"
    /\ fnStatus = 400 /\ fnExtra = {400, 404}
    /\ fnVerdict = "ok"

-----------------------------------------------------------------------------
(* Further claims about the Credential Provider (SpecAuth,
   SpecAuthConcurrent) *)

\* C27: a failed token refresh leaves the credential as it was: when the
\* token endpoint answers outside 200..299, access_token, expires_in and
\* last_refreshed keep the values they had before update_access_token.
C27_FailedRefreshKeepsCredential ==
    \A n \in 1..Len(exchangeLog) :
        LET e == exchangeLog[n] IN
        (e.status # 0 /\ ~(200 <= e.status /\ e.status <= 299))
            => /\ e.err # ""
               /\ e.after.access_token = e.before.access_token
               /\ e.after.expires_in = e.before.expires_in
               /\ e.after.last_refreshed = e.before.last_refreshed
               /\ auths[e.auth] = e.before

C27_Witness ==
    /\ Len(exchangeLog) = 2
    /\ exchangeLog[2].status = 401 /\ exchangeLog[2].err = "RuntimeError"
    /\ ~IsNone(exchangeLog[2].before.access_token)
    /\ exchangeLog[2].before.last_refreshed = Some(0)
    /\ exchangeLog[2].at = 2
    /\ auths[1] = exchangeLog[2].before

\* C23: token refresh is mutually exclusive: at most one exchange with the
\* token endpoint is in flight at any time, and a caller that needs a token
\* while another caller's refresh is under way uses that refresh's result
\* and starts none of its own.
C23_OneExchangeInFlight ==
    /\ Cardinality(InFlight) <= 1
    /\ \A m, n \in 1..Len(exchangeLog) :
          (m < n /\ exchangeLog[m].err = "" /\ exchangeLog[m].status # 0)
              => ~is_token_valid(exchangeLog[m].after, exchangeLog[n].at)

-----------------------------------------------------------------------------
(* Claim about the cursor within a fetch cycle (Spec) *)

\* C28: within one fetch cycle the incremental filter is constant: every list
\* request of the cycle carries the filter for the cursor read when the run
\* began, whatever replication-key values the records emitted so far have
\* written to the stream's state.
C28_FilterConstantInCycle ==
    \A i \in 1..Len(listLog) :
        /\ ~IsNone(cursor)
        /\ "q" \in DOMAIN listLog[i]
        /\ IsFilterClause(listLog[i]["q"], Val(replication_key(stream)),
                          Val(cursor))
        /\ listLog[i]["q"] = listLog[1]["q"]

C28_Witness ==
    /\ Len(listLog) = 2 /\ Len(emitted) = 2
    /\ cursor = Some([year |-> 2024, month |-> 12, day |-> 9])
    /\ bookmark = Some([year |-> 2024, month |-> 12, day |-> 11])
    /\ listLog[2]["q"] = listLog[1]["q"]
    /\ listLog[2]["offset"] = 2

====
